---- MODULE Spec2Model ----
(***************************************************************************)
(* Prophet forecasting API (backend/app.py) and its synthetic sample data  *)
(* (backend/sample_data.py).                                               *)
(*                                                                         *)
(* Dates are day numbers; a sale timestamp is <<day, time of day>>, and    *)
(* its first ten characters (YYYY-MM-DD) are the day.  Forecast values are *)
(* integers in thousandths.  An error message is the sequence of its       *)
(* words.                                                                  *)
(***************************************************************************)
EXTENDS Integers, Sequences, FiniteSets, TLC

VARIABLES
    supabase_client,   \* app.py _supabase_client: None or the client created
    env_creds,         \* SUPABASE_URL and SUPABASE_SERVICE_KEY are both set
    sale_items,        \* rows of the sale_items table (joined with sales.date)
    forecast_cache,    \* rows of the forecast_cache table
    now,               \* datetime.utcnow()
    rf,                \* per worker thread: a /api/forecast/refresh call in flight
    req,               \* the request answered last
    resp,              \* the response given to it
    audit,             \* what happened while answering it (not program state)
    fetched,           \* result of fetch_sales_data_from_supabase (series build)
    cl,                \* per thread: position and locals in get_supabase_client
    created,           \* clients made by create_client so far
    samples            \* series returned by the calls of get_sample_data_for_sku

vars == <<supabase_client, env_creds, sale_items, forecast_cache, now, rf, req,
          resp, audit, fetched, cl, created, samples>>

---------------------------------------------------------------------------
\* Bounds of the model

MaxRows == 3        \* rows of sale_items in the series-building specification
MaxPeriods == 1     \* largest forecast horizon requested
MaxClock == 1       \* cache writes attempted in one behaviour
MaxTargets == 3     \* longest `skus` list of a refresh request
MaxCustom == 2      \* longest custom sales_data list
MaxCreated == 3     \* clients created in one behaviour
MaxCalls == 3       \* calls of get_sample_data_for_sku, or per thread of get_supabase_client
MaxWrites == 3      \* cache writes attempted by concurrent requests in one behaviour

---------------------------------------------------------------------------
\* Values

None == "None"          \* a missing sku
NoDate == <<>>          \* a sale_items row whose sale has no date
NoClient == 0           \* _supabase_client is None
Absent == "Absent"      \* a key the request body does not carry

NoSeries == [isNone |-> TRUE, keys |-> <<>>, df |-> <<>>]

Max(a, b) == IF a >= b THEN a ELSE b

SeqToSet(s) == {s[i] : i \in 1..Len(s)}

RECURSIVE SeqsUpTo(_, _)
SeqsUpTo(S, n) ==
    IF n = 0 THEN {<<>>}
    ELSE LET shorter == SeqsUpTo(S, n - 1)
         IN  shorter \cup {Append(s, x) : s \in {t \in shorter : Len(t) = n - 1}, x \in S}

\* `pat` occurs in `msg` (substring test on messages)
Contains(msg, pat) ==
    \E i \in 0..(Len(msg) - Len(pat)) :
        \A j \in 1..Len(pat) : msg[i + j] = pat[j]

---------------------------------------------------------------------------
\* fetch_sales_data_from_supabase: rows -> per-SKU daily series

\* sale_date[:10]
DateStr(sale_date) == sale_date[1]

\* item.get('quantity', 0): the select always returns the column
Quantity(item) == item.quantity

\* a dict as the sequence of its <<key, value>> items in insertion order
HasKey(d, k) == \E i \in 1..Len(d) : d[i][1] = k

Lookup(d, k) == d[CHOOSE i \in 1..Len(d) : d[i][1] = k][2]

Store(d, k, v) ==
    IF HasKey(d, k)
    THEN [i \in 1..Len(d) |-> IF d[i][1] = k THEN <<k, v>> ELSE d[i]]
    ELSE Append(d, <<k, v>>)

\* one pass of the loop over response.data
AddItem(sales_by_sku, item) ==
    IF item.sku = None \/ item.date = NoDate
    THEN sales_by_sku
    ELSE LET sku == item.sku
             date_str == DateStr(item.date)
             d0 == IF HasKey(sales_by_sku, sku) THEN Lookup(sales_by_sku, sku) ELSE <<>>
             d1 == IF HasKey(d0, date_str) THEN d0 ELSE Store(d0, date_str, 0)
         IN  Store(sales_by_sku, sku, Store(d1, date_str, Lookup(d1, date_str) + Quantity(item)))

RECURSIVE SalesBySku(_)
SalesBySku(rows) ==
    IF rows = <<>> THEN <<>>
    ELSE AddItem(SalesBySku(SubSeq(rows, 1, Len(rows) - 1)), rows[Len(rows)])

\* the items left in insertion order
Unsorted(items) == items

\* sorted(daily_sales.items())
RECURSIVE Sorted(_)
Sorted(items) ==
    IF items = <<>> THEN <<>>
    ELSE LET m == CHOOSE i \in 1..Len(items) : \A j \in 1..Len(items) : items[i][1] <= items[j][1]
             rest == [i \in 1..(Len(items) - 1) |-> IF i < m THEN items[i] ELSE items[i + 1]]
         IN  <<items[m]>> \o Sorted(rest)

\* pd.to_datetime of a YYYY-MM-DD text: midnight of that day, in half days
ToDatetime(day) == 2 * day

\* pd.DataFrame([{'ds': date, 'y': qty} ...]) and df['ds'] = pd.to_datetime(df['ds'])
DataFrame(items) ==
    [dtype |-> "datetime",
     rows |-> [i \in 1..Len(items) |-> [ds |-> ToDatetime(items[i][1]), y |-> items[i][2]]]]

\* the SKUs with at least two daily totals, in dict order
RECURSIVE ResultKeys(_)
ResultKeys(sales_by_sku) ==
    IF sales_by_sku = <<>> THEN <<>>
    ELSE LET n == Len(sales_by_sku)
             before == ResultKeys(SubSeq(sales_by_sku, 1, n - 1))
         IN  IF Len(sales_by_sku[n][2]) >= 2
             THEN Append(before, sales_by_sku[n][1])
             ELSE before

BuildSeries(rows) ==
    LET sales_by_sku == SalesBySku(rows)
        keys == ResultKeys(sales_by_sku)
    IN  [isNone |-> FALSE,
         keys |-> keys,
         df |-> [sku \in SeqToSet(keys) |-> DataFrame(Sorted(Lookup(sales_by_sku, sku)))]]

\* client: the value get_supabase_client returned; query_ok: execute() did not raise
fetch_sales_data_from_supabase(client, rows, query_ok) ==
    IF client = NoClient THEN NoSeries
    ELSE IF ~query_ok THEN NoSeries
    ELSE IF rows = <<>> THEN NoSeries
    ELSE BuildSeries(rows)

\* `not sales_data`
Falsy(sales_data) == sales_data.isNone \/ sales_data.keys = <<>>

---------------------------------------------------------------------------
\* generate_forecast_for_sku

DefaultPeriods == 90

Frequencies == {"D"}

\* the step of a pandas frequency, in half days
FreqStep(frequency) == IF frequency = "D" THEN 2 ELSE 1

\* what the forecasting library may return for a future date: <<yhat, yhat_lower, yhat_upper>>
LibRows == {<<1236, -1234, 2344>>, <<-1234, -2344, -6>>}

\* what it may return for a date of the history it was fitted on
FittedRows == {<<1004, 996, 1236>>}

\* df['ds'] = pd.to_datetime(df['ds'])
ParseDates(df) ==
    IF df.dtype = "datetime" THEN df
    ELSE [dtype |-> "datetime",
          rows |-> [i \in 1..Len(df.rows) |-> [ds |-> ToDatetime(df.rows[i].ds), y |-> df.rows[i].y]]]

\* df['ds'].max()
LastDate(df) == CHOOSE t \in {df.rows[i].ds : i \in 1..Len(df.rows)} : \A i \in 1..Len(df.rows) : df.rows[i].ds <= t

RECURSIVE SortedSet(_)
SortedSet(S) ==
    IF S = {} THEN <<>>
    ELSE LET m == CHOOSE x \in S : \A y \in S : x <= y
         IN  <<m>> \o SortedSet(S \ {m})

\* model.make_future_dataframe(periods, freq): the history dates, then `periods` more
FutureDates(df, periods, frequency) ==
    SortedSet({df.rows[i].ds : i \in 1..Len(df.rows)})
        \o [k \in 1..periods |-> LastDate(df) + k * FreqStep(frequency)]

\* model.predict(future): one row per date of `future`, the values the library's choice
LibOutputs(df, periods, frequency) ==
    LET dates == FutureDates(df, periods, frequency)
        fitted == Len(dates) - periods
    IN  {[i \in 1..Len(dates) |->
            LET v == IF i <= fitted THEN h ELSE f[i - fitted]
            IN  [ds |-> dates[i], yhat |-> v[1], yhat_lower |-> v[2], yhat_upper |-> v[3]]] :
         h \in FittedRows, f \in [1..periods -> LibRows]}

\* round(x, 2) of a non-negative amount in thousandths
Round2(x) ==
    LET q == x \div 10
        r == x % 10
    IN  IF r < 5 THEN 10 * q
        ELSE IF r > 5 THEN 10 * (q + 1)
        ELSE IF q % 2 = 0 THEN 10 * q ELSE 10 * (q + 1)

\* row['ds'].strftime('%Y-%m-%d')
Strftime(t) == t \div 2

\* the row with only the point estimate clamped at zero
FormatRowBoundsUnclamped(row) ==
    [ds |-> Strftime(row.ds),
     yhat |-> Round2(Max(0, row.yhat)),
     yhat_lower |-> Round2(row.yhat_lower),
     yhat_upper |-> Round2(row.yhat_upper)]

\* lines 174-179: one entry of forecast_data
FormatRow(row) ==
    [ds |-> Strftime(row.ds),
     yhat |-> Round2(Max(0, row.yhat)),
     yhat_lower |-> Round2(Max(0, row.yhat_lower)),
     yhat_upper |-> Round2(Max(0, row.yhat_upper))]

\* forecast[forecast['ds'] > last_date]
RECURSIVE FutureOnly(_, _)
FutureOnly(forecast, last_date) ==
    IF forecast = <<>> THEN <<>>
    ELSE LET n == Len(forecast)
             before == FutureOnly(SubSeq(forecast, 1, n - 1), last_date)
         IN  IF forecast[n].ds > last_date THEN Append(before, forecast[n]) ELSE before

NoForecast == [isNone |-> TRUE, data |-> <<>>]

\* predicted: the rows model.predict returned for this frame
generate_forecast_for_sku(df0, periods, frequency, predicted) ==
    LET df == ParseDates(df0)
    IN  IF Len(df.rows) < 2 THEN NoForecast
        ELSE LET future_forecast == FutureOnly(predicted, LastDate(df))
             IN  [isNone |-> FALSE,
                  data |-> [i \in 1..Len(future_forecast) |-> FormatRow(future_forecast[i])]]

\* `if forecast_data:`
Truthy(forecast_data) == ~forecast_data.isNone /\ forecast_data.data # <<>>

---------------------------------------------------------------------------
\* The Supabase client and the forecast_cache table

\* get_supabase_client run without interruption; create_ok: create_client did not raise
get_supabase_client(client, creds, create_ok, n) ==
    IF client # NoClient THEN [client |-> client, created |-> n]
    ELSE IF creds /\ create_ok THEN [client |-> n + 1, created |-> n + 1]
    ELSE [client |-> NoClient, created |-> n]

\* the outcomes create_client can have when get_supabase_client is called
CreateChoices(client, creds) == IF client = NoClient /\ creds THEN BOOLEAN ELSE {FALSE}

\* the outcomes execute() can have on the client returned
QueryChoices(client) == IF client = NoClient THEN {FALSE} ELSE BOOLEAN

\* a plain insert of the row
Insert(table, row) == Append(table, row)

\* table('forecast_cache').upsert(row, on_conflict='sku')
Upsert(table, row) ==
    IF \E i \in 1..Len(table) : table[i].sku = row.sku
    THEN [i \in 1..Len(table) |-> IF table[i].sku = row.sku THEN row ELSE table[i]]
    ELSE Append(table, row)

\* save_forecast_to_cache: the table afterwards
save_forecast_to_cache(table, client, sku, predictions, utcnow, query_ok) ==
    IF client = NoClient THEN table
    ELSE IF ~query_ok THEN table
    ELSE Upsert(table, [sku |-> sku, predictions |-> predictions, generated_at |-> utcnow])

RECURSIVE SelectEq(_, _)
SelectEq(table, sku) ==
    IF table = <<>> THEN <<>>
    ELSE LET n == Len(table)
             before == SelectEq(SubSeq(table, 1, n - 1), sku)
         IN  IF table[n].sku = sku THEN Append(before, table[n]) ELSE before

\* get_cached_forecast: the rows, <<>> standing for None
get_cached_forecast(table, client, sku, query_ok) ==
    IF client = NoClient THEN <<>>
    ELSE IF ~query_ok THEN <<>>
    ELSE IF sku # Absent THEN SelectEq(table, sku)
    ELSE table

\* {item['sku']: item[field] for item in cached}
DictOf(cached, field) ==
    [sku \in {cached[i].sku : i \in 1..Len(cached)} |->
        LET last == CHOOSE i \in 1..Len(cached) :
                        /\ cached[i].sku = sku
                        /\ \A j \in (i + 1)..Len(cached) : cached[j].sku # sku
        IN  cached[last][field]]

---------------------------------------------------------------------------
\* Requests and responses

\* SKUs of the sale_items table: A and B have sales on two days, C on one; Z has none
Skus == {"A", "B", "C", "Z"}

Row(sku, day, tod, quantity) == [sku |-> sku, date |-> <<day, tod>>, quantity |-> quantity]

SeededTable ==
    <<Row("A", 2, 0, 1), Row("B", 1, 0, 2), Row("A", 1, 1, 3), Row("C", 1, 0, 1),
      Row("B", 3, 0, 1), Row("A", 2, 1, 1)>>

SaleTables == {<<>>, SeededTable}

\* the lists a caller may send as sales_data: the first days of one series
CustomSeries == [i \in 1..MaxCustom |-> [ds |-> i, y |-> i + 1]]

CustomLists == {SubSeq(CustomSeries, 1, n) : n \in 0..MaxCustom}

\* `skus` lists that name a SKU twice
RepeatedTargets == {<<"A", "A">>, <<"Z", "Z">>}

\* the `skus` lists a caller may send: those that name no SKU twice, and RepeatedTargets
TargetLists ==
    {s \in SeqsUpTo({"A", "B", "Z"}, MaxTargets) : \A i, j \in 1..Len(s) : s[i] = s[j] => i = j}
        \cup RepeatedTargets

\* pd.DataFrame(data['sales_data'])
CustomFrame(sales_data) == [dtype |-> "object", rows |-> sales_data]

\* a body without a `periods` key asks for DefaultPeriods; the bodies enumerated carry one
EmptyBody ==
    [empty |-> TRUE, sales_data |-> <<>>, sku |-> Absent, has_periods |-> FALSE, periods |-> 0,
     frequency |-> "D"]

ForecastBodies ==
    {EmptyBody} \cup
    [empty : {FALSE}, sales_data : CustomLists, sku : Skus \cup {Absent},
     has_periods : {TRUE}, periods : 0..MaxPeriods, frequency : Frequencies]

RefreshBodies ==
    [skus : TargetLists, has_periods : {TRUE}, periods : 0..MaxPeriods,
     frequency : {"D"}]

\* data.get('periods', 90)
Periods(body) == IF body.has_periods THEN body.periods ELSE DefaultPeriods

MsgNoData == <<"No", "data", "provided">>
MsgNoSalesFor(sku) == <<"No", "sales", "data", "for", "SKU", ":", sku>>
MsgMustProvide == <<"Must", "provide", "either", "'sales_data'", "or", "'sku'">>
MsgFailed == <<"Failed", "to", "generate", "forecast">>
MsgNoSupabase == <<"No", "sales", "data", "available", "in", "Supabase">>
MsgNoSalesThis == <<"No", "sales", "data", "for", "this", "SKU">>
MsgNoCached == <<"No", "cached", "forecasts", "available">>
MsgNoSkus == <<"No", "sales", "data", "available">>

\* jsonify(...) with its HTTP status; the fields a response does not carry are empty
Response(endpoint, status, success) ==
    [endpoint |-> endpoint, status |-> status, success |-> success, error |-> <<>>,
     message |-> <<>>, forecast |-> <<>>, forecasts |-> <<>>, errors |-> <<>>,
     cached |-> FALSE, generated_at |-> <<>>, skus |-> <<>>, skus_processed |-> 0,
     training_points |-> 0, supabase_connected |-> FALSE]

Failure(endpoint, status, error) == [Response(endpoint, status, FALSE) EXCEPT !.error = error]

NoAudit == [db_down |-> FALSE, writes |-> {}, failed |-> {}]

Put(f, k, v) == [x \in DOMAIN f \cup {k} |-> IF x = k THEN v ELSE f[x]]

---------------------------------------------------------------------------
\* The handlers, one request answered per step

\* no request is being answered
Idle == req.endpoint = "none"

Reply(request, response, trail) ==
    /\ req' = request
    /\ resp' = response
    /\ audit' = trail

Unused == UNCHANGED <<env_creds, sale_items, fetched, cl, samples>>

\* GET /api/health
health_check ==
    /\ Idle
    /\ \E create_ok \in CreateChoices(supabase_client, env_creds) :
        LET got == get_supabase_client(supabase_client, env_creds, create_ok, created)
        IN  /\ supabase_client' = got.client
            /\ created' = got.created
            /\ Reply([endpoint |-> "health"],
                     [Response("health", 200, TRUE) EXCEPT !.supabase_connected = (got.client # NoClient)],
                     NoAudit)
            /\ UNCHANGED <<forecast_cache, now, rf>>
            /\ Unused

\* the response of get_cached_forecasts to the rows get_cached_forecast returned
CachedResponse(cached) ==
    IF cached # <<>>
    THEN [Response("cached", 200, TRUE) EXCEPT
             !.cached = TRUE,
             !.forecasts = DictOf(cached, "predictions"),
             !.generated_at = DictOf(cached, "generated_at")]
    ELSE [Response("cached", 200, TRUE) EXCEPT !.message = MsgNoCached]

\* GET /api/forecast/cached
get_cached_forecasts(sku) ==
    /\ Idle
    /\ \E create_ok \in CreateChoices(supabase_client, env_creds) :
        LET got == get_supabase_client(supabase_client, env_creds, create_ok, created)
        IN  \E query_ok \in QueryChoices(got.client) :
                LET cached == get_cached_forecast(forecast_cache, got.client, sku, query_ok)
                IN  /\ supabase_client' = got.client
                    /\ created' = got.created
                    /\ Reply([endpoint |-> "cached", sku |-> sku], CachedResponse(cached),
                             [NoAudit EXCEPT !.db_down = ~query_ok])
                    /\ UNCHANGED <<forecast_cache, now, rf>>
                    /\ Unused

\* the rest of forecast() once the frame is known: lines 326-346
RunForecast(body, df, client, made, db_down) ==
    \E predicted \in LibOutputs(ParseDates(df), Periods(body), body.frequency) :
        LET forecast_data == generate_forecast_for_sku(df, Periods(body), body.frequency, predicted)
            request == [endpoint |-> "forecast", body |-> body]
        IN  IF ~Truthy(forecast_data)
            THEN /\ supabase_client' = client
                 /\ created' = made
                 /\ Reply(request, Failure("forecast", 500, MsgFailed), [NoAudit EXCEPT !.db_down = db_down])
                 /\ UNCHANGED <<forecast_cache, now>>
            ELSE LET response == [Response("forecast", 200, TRUE) EXCEPT
                                     !.forecast = forecast_data.data,
                                     !.training_points = Len(df.rows)]
                 IN  IF body.sku = Absent
                     THEN /\ supabase_client' = client
                          /\ created' = made
                          /\ Reply(request, response, [NoAudit EXCEPT !.db_down = db_down])
                          /\ UNCHANGED <<forecast_cache, now>>
                     ELSE /\ now < MaxClock
                          /\ \E create_ok \in CreateChoices(client, env_creds) :
                                LET got == get_supabase_client(client, env_creds, create_ok, made)
                                IN  \E query_ok \in QueryChoices(got.client) :
                                        /\ supabase_client' = got.client
                                        /\ created' = got.created
                                        /\ forecast_cache' = save_forecast_to_cache(forecast_cache, got.client,
                                                                 body.sku, forecast_data.data, now, query_ok)
                                        /\ now' = now + 1
                                        /\ Reply(request, response,
                                                 [db_down |-> db_down, writes |-> {body.sku},
                                                  failed |-> IF query_ok THEN {} ELSE {body.sku}])

\* the same answer as "not found"
UnknownSkuNotFound(sku) == Failure("forecast", 404, MsgNoSalesFor(sku))

\* the answer of forecast() to a SKU that fetch_sales_data_from_supabase did not return
UnknownSkuReply(sku) == Failure("forecast", 400, MsgNoSalesFor(sku))

\* POST /api/forecast
forecast(body) ==
    /\ Idle
    /\ UNCHANGED rf
    /\ Unused
    /\ IF body.empty
       THEN /\ Reply([endpoint |-> "forecast", body |-> body], Failure("forecast", 400, MsgNoData), NoAudit)
            /\ UNCHANGED <<supabase_client, created, forecast_cache, now>>
       ELSE IF body.sales_data # <<>>
       THEN RunForecast(body, CustomFrame(body.sales_data), supabase_client, created, FALSE)
       ELSE IF body.sku # Absent
       THEN \E create_ok \in CreateChoices(supabase_client, env_creds) :
                LET got == get_supabase_client(supabase_client, env_creds, create_ok, created)
                IN  \E query_ok \in QueryChoices(got.client) :
                        LET sales_data == fetch_sales_data_from_supabase(got.client, sale_items, query_ok)
                        IN  IF ~Falsy(sales_data) /\ body.sku \in SeqToSet(sales_data.keys)
                            THEN RunForecast(body, sales_data.df[body.sku], got.client, got.created, FALSE)
                            ELSE /\ supabase_client' = got.client
                                 /\ created' = got.created
                                 /\ Reply([endpoint |-> "forecast", body |-> body],
                                          UnknownSkuReply(body.sku),
                                          [NoAudit EXCEPT !.db_down = ~query_ok])
                                 /\ UNCHANGED <<forecast_cache, now>>
       ELSE /\ Reply([endpoint |-> "forecast", body |-> body], Failure("forecast", 400, MsgMustProvide), NoAudit)
            /\ UNCHANGED <<supabase_client, created, forecast_cache, now>>

\* the pass with the cache write moved before the test of forecast_data
RefreshSkuSaveFirst(sku, sales_data, periods, frequency, client, acc) ==
    IF sku \notin SeqToSet(sales_data.keys)
    THEN {[acc EXCEPT !.errors = Put(@, sku, MsgNoSalesThis)]}
    ELSE LET df == sales_data.df[sku]
         IN  {LET forecast_data == generate_forecast_for_sku(df, periods, frequency, predicted)
                  saved == [forecasts |-> acc.forecasts,
                            errors |-> acc.errors,
                            cache |-> save_forecast_to_cache(acc.cache, client, sku, forecast_data.data,
                                                             acc.now, query_ok),
                            now |-> acc.now + 1,
                            writes |-> acc.writes \cup {sku},
                            failed |-> IF query_ok THEN acc.failed \ {sku} ELSE acc.failed \cup {sku}]
              IN  IF Truthy(forecast_data)
                  THEN [saved EXCEPT !.forecasts = Put(@, sku, forecast_data.data)]
                  ELSE [saved EXCEPT !.errors = Put(@, sku, MsgFailed)] :
              predicted \in LibOutputs(df, periods, frequency), query_ok \in QueryChoices(client)}

\* one pass of the loop of refresh_forecasts over skus_to_process (lines 256-269):
\* the results it can leave, from the results `acc` of the passes before
RefreshSku(sku, sales_data, periods, frequency, client, acc) ==
    IF sku \notin SeqToSet(sales_data.keys)
    THEN {[acc EXCEPT !.errors = Put(@, sku, MsgNoSalesThis)]}
    ELSE LET df == sales_data.df[sku]
         IN  {LET forecast_data == generate_forecast_for_sku(df, periods, frequency, predicted)
              IN  IF Truthy(forecast_data)
                  THEN [forecasts |-> Put(acc.forecasts, sku, forecast_data.data),
                        errors |-> acc.errors,
                        cache |-> save_forecast_to_cache(acc.cache, client, sku, forecast_data.data,
                                                         acc.now, query_ok),
                        now |-> acc.now + 1,
                        writes |-> acc.writes \cup {sku},
                        failed |-> IF query_ok THEN acc.failed \ {sku} ELSE acc.failed \cup {sku}]
                  ELSE [acc EXCEPT !.errors = Put(@, sku, MsgFailed)] :
              predicted \in LibOutputs(df, periods, frequency), query_ok \in QueryChoices(client)}

RECURSIVE RefreshLoop(_, _, _, _, _, _)
RefreshLoop(skus_to_process, sales_data, periods, frequency, client, acc) ==
    IF skus_to_process = <<>> THEN {acc}
    ELSE UNION {RefreshLoop(Tail(skus_to_process), sales_data, periods, frequency, client, next) :
                    next \in RefreshSku(Head(skus_to_process), sales_data, periods, frequency, client, acc)}

\* POST /api/forecast/refresh
refresh_forecasts(body) ==
    /\ Idle
    /\ \E create_ok \in CreateChoices(supabase_client, env_creds) :
        LET got == get_supabase_client(supabase_client, env_creds, create_ok, created)
            request == [endpoint |-> "refresh", body |-> body]
        IN  \E query_ok \in QueryChoices(got.client) :
                LET sales_data == fetch_sales_data_from_supabase(got.client, sale_items, query_ok)
                    target_skus == body.skus
                    skus_to_process == IF target_skus # <<>> THEN target_skus ELSE sales_data.keys
                IN  /\ supabase_client' = got.client
                    /\ created' = got.created
                    /\ UNCHANGED rf
                    /\ Unused
                    /\ IF Falsy(sales_data)
                       THEN /\ Reply(request, Failure("refresh", 400, MsgNoSupabase),
                                     [NoAudit EXCEPT !.db_down = ~query_ok])
                            /\ UNCHANGED <<forecast_cache, now>>
                       ELSE \E done \in RefreshLoop(skus_to_process, sales_data, Periods(body), body.frequency,
                                                     got.client,
                                                     [forecasts |-> <<>>, errors |-> <<>>, cache |-> forecast_cache,
                                                      now |-> now, writes |-> {}, failed |-> {}]) :
                                /\ done.now <= MaxClock
                                /\ forecast_cache' = done.cache
                                /\ now' = done.now
                                /\ Reply(request,
                                         [Response("refresh", 200, TRUE) EXCEPT
                                             !.forecasts = done.forecasts,
                                             !.errors = done.errors,
                                             !.skus_processed = Cardinality(DOMAIN done.forecasts)],
                                         [db_down |-> FALSE, writes |-> done.writes, failed |-> done.failed])

RECURSIVE SumY(_)
SumY(rows) == IF rows = <<>> THEN 0 ELSE rows[1].y + SumY(Tail(rows))

\* one entry of sku_info (lines 370-377)
SkuInfo(sku, df) ==
    [sku |-> sku,
     data_points |-> Len(df.rows),
     start_date |-> Strftime(df.rows[1].ds),
     end_date |-> Strftime(LastDate(df)),
     total_sales |-> SumY(df.rows)]

\* GET /api/skus
get_available_skus ==
    /\ Idle
    /\ \E create_ok \in CreateChoices(supabase_client, env_creds) :
        LET got == get_supabase_client(supabase_client, env_creds, create_ok, created)
        IN  \E query_ok \in QueryChoices(got.client) :
                LET sales_data == fetch_sales_data_from_supabase(got.client, sale_items, query_ok)
                IN  /\ supabase_client' = got.client
                    /\ created' = got.created
                    /\ Reply([endpoint |-> "skus"],
                             IF Falsy(sales_data)
                             THEN [Response("skus", 200, TRUE) EXCEPT !.message = MsgNoSkus]
                             ELSE [Response("skus", 200, TRUE) EXCEPT
                                      !.skus = [i \in 1..Len(sales_data.keys) |->
                                                   SkuInfo(sales_data.keys[i], sales_data.df[sales_data.keys[i]])]],
                             [NoAudit EXCEPT !.db_down = ~query_ok])
                    /\ UNCHANGED <<forecast_cache, now, rf>>
                    /\ Unused

---------------------------------------------------------------------------
\* The service: requests answered one after another

Init ==
    /\ supabase_client = NoClient
    /\ env_creds \in BOOLEAN
    /\ sale_items \in SaleTables
    /\ forecast_cache = <<>>
    /\ now = 0
    /\ rf = <<>>
    /\ req = [endpoint |-> "none"]
    /\ resp = Response("none", 0, FALSE)
    /\ audit = NoAudit
    /\ fetched = NoSeries
    /\ cl = <<>>
    /\ created = 0
    /\ samples = <<>>

\* the response has been sent: the server takes the next request
serve ==
    /\ ~Idle
    /\ req' = [endpoint |-> "none"]
    /\ resp' = Response("none", 0, FALSE)
    /\ audit' = NoAudit
    /\ UNCHANGED <<supabase_client, created, forecast_cache, now, rf>>
    /\ Unused

Next ==
    \/ serve
    \/ health_check
    \/ \E sku \in Skus \cup {Absent} : get_cached_forecasts(sku)
    \/ \E body \in ForecastBodies : forecast(body)
    \/ \E body \in RefreshBodies : refresh_forecasts(body)
    \/ get_available_skus

Spec == Init /\ [][Next]_vars

---------------------------------------------------------------------------
\* Claims about the responses

\* the series the sale_items table holds for each SKU with two or more sale dates
Observed == BuildSeries(sale_items)

HasSeries(sku) == sku \in SeqToSet(Observed.keys)

\* a POST /api/forecast by SKU alone was answered
BySku == req.endpoint = "forecast" /\ ~req.body.empty /\ req.body.sales_data = <<>> /\ req.body.sku # Absent

\* C1: a forecast request for a SKU with two or more observed points is answered with
\* success and exactly `periods` points, each dated after the last observed date and
\* none negative
C1_ForecastHasPeriodsPoints ==
    (BySku /\ HasSeries(req.body.sku) /\ ~audit.db_down) =>
        /\ resp.status = 200
        /\ resp.success
        /\ Len(resp.forecast) = Periods(req.body)
        /\ \A i \in 1..Len(resp.forecast) :
              /\ resp.forecast[i].ds > Strftime(LastDate(Observed.df[req.body.sku]))
              /\ resp.forecast[i].yhat >= 0
              /\ resp.forecast[i].yhat_lower >= 0
              /\ resp.forecast[i].yhat_upper >= 0

\* C2: once a refresh has returned a forecast for a SKU, a cached read of that SKU that
\* follows it directly returns the same forecast, whether or not the cache write failed
C2_RefreshThenCachedRead ==
    (req.endpoint = "refresh" /\ resp.success) =>
        \A sku \in DOMAIN resp.forecasts :
            LET read == CachedResponse(get_cached_forecast(forecast_cache, supabase_client, sku, TRUE))
            IN  /\ sku \in DOMAIN read.forecasts
                /\ read.forecasts[sku] = resp.forecasts[sku]

\* the SKUs of a refresh request's list that have a series, and those that have none
ValidTargets == {sku \in SeqToSet(req.body.skus) : HasSeries(sku)}

InvalidTargets == {sku \in SeqToSet(req.body.skus) : ~HasSeries(sku)}

\* C3: a refresh naming one SKU without data among several with data is answered with
\* success, a forecast for every SKU with data and an error for the one without
C3_BatchIsolatesFailures ==
    (/\ req.endpoint = "refresh"
     /\ ~audit.db_down
     /\ Cardinality(ValidTargets) >= 2
     /\ Cardinality(InvalidTargets) = 1) =>
        /\ resp.success
        /\ \A sku \in ValidTargets : sku \in DOMAIN resp.forecasts /\ sku \in audit.writes
        /\ \A sku \in InvalidTargets : sku \in DOMAIN resp.errors /\ sku \notin DOMAIN resp.forecasts

\* C4 as stated: a forecast request naming a SKU that is not in the sales data is answered
\* 400 with a message containing "Unknown SKU"
C4_UnknownSkuMessage ==
    (BySku /\ ~HasSeries(req.body.sku) /\ ~audit.db_down) =>
        resp.status = 400 /\ Contains(resp.error, <<"Unknown", "SKU">>)

\* C4 amended: a forecast request that carries no sales_data and names a SKU that is not
\* in the sales data is answered 400 with the message "No sales data for SKU: <sku>"
C4_NoSalesDataForSku ==
    (BySku /\ ~HasSeries(req.body.sku)) =>
        /\ resp.status = 400
        /\ ~resp.success
        /\ resp.error = <<"No", "sales", "data", "for", "SKU", ":", req.body.sku>>
        /\ resp.forecast = <<>>

C4_Witness ==
    /\ BySku
    /\ req.body.sku = "Z"
    /\ ~audit.db_down
    /\ sale_items # <<>>
    /\ resp.status = 400

\* the series of the request answered has fewer than two observed points
FewerThanTwoPoints ==
    /\ req.endpoint = "forecast"
    /\ ~req.body.empty
    /\ \/ req.body.sales_data # <<>> /\ Len(req.body.sales_data) < 2
       \/ BySku /\ ~audit.db_down /\ ~HasSeries(req.body.sku)

\* C5: a forecast request whose series has fewer than two observed points is answered 400,
\* never 500 and never with a forecast
C5_TooFewPointsIs400 ==
    FewerThanTwoPoints => resp.status = 400 /\ ~resp.success

\* C6: when the database is unavailable, every endpoint that reads it answers 500 with
\* success false
C6_DatabaseDownIs500 ==
    (audit.db_down /\ (BySku \/ req.endpoint \in {"refresh", "cached", "skus"})) =>
        resp.status = 500 /\ ~resp.success

---------------------------------------------------------------------------
\* fetch_sales_data_from_supabase on any table of up to MaxRows rows

ItemRows ==
    [sku : {None, "A", "B"}, date : {NoDate, <<1, 0>>, <<2, 0>>, <<2, 1>>}, quantity : {1, 2}]

InitFetch ==
    /\ supabase_client = 1
    /\ env_creds = TRUE
    /\ sale_items \in SeqsUpTo(ItemRows, MaxRows)
    /\ forecast_cache = <<>>
    /\ now = 0
    /\ rf = <<>>
    /\ req = [endpoint |-> "none"]
    /\ resp = Response("none", 0, FALSE)
    /\ audit = NoAudit
    /\ fetched = NoSeries
    /\ cl = <<>>
    /\ created = 1
    /\ samples = <<>>

FetchSalesData ==
    /\ Idle
    /\ \E query_ok \in QueryChoices(supabase_client) :
          /\ fetched' = fetch_sales_data_from_supabase(get_supabase_client(supabase_client, env_creds, TRUE, created).client,
                                                       sale_items, query_ok)
          /\ req' = [endpoint |-> "fetch", query_ok |-> query_ok]
    /\ UNCHANGED <<supabase_client, env_creds, sale_items, forecast_cache, now, rf, resp, audit, cl,
                   created, samples>>

SpecFetch == InitFetch /\ [][FetchSalesData]_vars

\* the rows that carry a SKU and a sale date
Usable(sku) == {i \in 1..Len(sale_items) : sale_items[i].sku = sku /\ sale_items[i].date # NoDate}

DaysOf(sku) == {sale_items[i].date[1] : i \in Usable(sku)}

RECURSIVE Total(_, _)
Total(sku, S) ==
    IF S = {} THEN 0
    ELSE LET i == CHOOSE x \in S : TRUE
         IN  sale_items[i].quantity + Total(sku, S \ {i})

SoldOn(sku, day) == Total(sku, {i \in Usable(sku) : sale_items[i].date[1] = day})

\* C8: the series built from any rows has, per SKU, one point per distinct sale date in
\* strictly ascending order, its quantity the sum over the rows of that SKU and date; rows
\* without SKU or date count nowhere, and a SKU with fewer than two dates has no series
C8_SeriesSortedUniqueSummed ==
    (req.endpoint = "fetch" /\ req.query_ok /\ sale_items # <<>>) =>
        /\ ~fetched.isNone
        /\ SeqToSet(fetched.keys) = {sku \in {"A", "B", None} : sku # None /\ Cardinality(DaysOf(sku)) >= 2}
        /\ DOMAIN fetched.df = SeqToSet(fetched.keys)
        /\ \A sku \in DOMAIN fetched.df :
              LET rows == fetched.df[sku].rows
              IN  /\ \A i \in 1..(Len(rows) - 1) : rows[i].ds < rows[i + 1].ds
                  /\ {rows[i].ds : i \in 1..Len(rows)} = {ToDatetime(day) : day \in DaysOf(sku)}
                  /\ \A i \in 1..Len(rows) : rows[i].y = SoldOn(sku, Strftime(rows[i].ds))

\* a series whose rows arrived out of date order, two of them on the same day
C8_Witness ==
    /\ req.endpoint = "fetch"
    /\ "A" \in DOMAIN fetched.df
    /\ Len(sale_items) >= 3
    /\ sale_items[1].sku = "A" /\ sale_items[1].date = <<2, 0>>
    /\ sale_items[2].sku = "A" /\ sale_items[2].date = <<1, 0>>
    /\ sale_items[3].sku = "A" /\ sale_items[3].date = <<2, 1>>
    /\ fetched.df["A"].rows[2].y = sale_items[1].quantity + sale_items[3].quantity

---------------------------------------------------------------------------
\* Requests answered by concurrent threads: each query of the database is one step

Threads == {"t1", "t2"}

Resting == [pc |-> "idle"]

\* the requests the threads answer: refreshes of all SKUs, of A, and of B then A, and
\* forecasts of A from the table or from the caller's own series, one day ahead
ConcRefreshBodies ==
    {b \in RefreshBodies : Periods(b) = 1 /\ b.skus \in {<<>>, <<"A">>, <<"B", "A">>}}

ConcForecastBodies ==
    {b \in ForecastBodies : ~b.empty /\ b.sku = "A" /\ Periods(b) = 1
                              /\ Len(b.sales_data) \in {0, MaxCustom}}

InitConc ==
    /\ supabase_client = NoClient
    /\ env_creds = TRUE
    /\ sale_items = SeededTable
    /\ forecast_cache = <<>>
    /\ now = 0
    /\ rf = [t \in Threads |-> Resting]
    /\ req = [endpoint |-> "none"]
    /\ resp = Response("none", 0, FALSE)
    /\ audit = NoAudit
    /\ fetched = NoSeries
    /\ cl = <<>>
    /\ created = 0
    /\ samples = <<>>

ConcFrame == UNCHANGED <<env_creds, sale_items, req, resp, audit, fetched, cl, samples>>

\* refresh_forecasts up to its loop (lines 231-254)
BeginRefresh(t, body) ==
    /\ rf[t].pc = "idle"
    /\ \E create_ok \in CreateChoices(supabase_client, env_creds) :
          LET got == get_supabase_client(supabase_client, env_creds, create_ok, created)
          IN  \E query_ok \in QueryChoices(got.client) :
                  LET sales_data == fetch_sales_data_from_supabase(got.client, sale_items, query_ok)
                  IN  /\ supabase_client' = got.client
                      /\ created' = got.created
                      /\ rf' = [rf EXCEPT ![t] =
                                  IF Falsy(sales_data) THEN Resting
                                  ELSE [pc |-> "loop", body |-> body, sales_data |-> sales_data,
                                        todo |-> IF body.skus # <<>> THEN body.skus ELSE sales_data.keys,
                                        forecasts |-> <<>>, errors |-> <<>>]]
    /\ UNCHANGED <<forecast_cache, now>>
    /\ ConcFrame

\* one pass of its loop (lines 256-269)
RefreshPass(t) ==
    /\ rf[t].pc = "loop"
    /\ rf[t].todo # <<>>
    /\ \E create_ok \in CreateChoices(supabase_client, env_creds) :
          LET got == get_supabase_client(supabase_client, env_creds, create_ok, created)
          IN  \E next \in RefreshSku(Head(rf[t].todo), rf[t].sales_data, Periods(rf[t].body),
                                     rf[t].body.frequency, got.client,
                                     [forecasts |-> rf[t].forecasts, errors |-> rf[t].errors,
                                      cache |-> forecast_cache, now |-> now, writes |-> {}, failed |-> {}]) :
                  /\ next.now <= MaxWrites
                  /\ supabase_client' = IF next.now = now THEN supabase_client ELSE got.client
                  /\ created' = IF next.now = now THEN created ELSE got.created
                  /\ forecast_cache' = next.cache
                  /\ now' = next.now
                  /\ rf' = [rf EXCEPT ![t].todo = Tail(@), ![t].forecasts = next.forecasts,
                                      ![t].errors = next.errors]
    /\ ConcFrame

\* its response (lines 271-282)
EndRefresh(t) ==
    /\ rf[t].pc = "loop"
    /\ rf[t].todo = <<>>
    /\ rf' = [rf EXCEPT ![t] = Resting]
    /\ UNCHANGED <<supabase_client, created, forecast_cache, now>>
    /\ ConcFrame

\* forecast() up to its cache write (lines 298-330), for a body that names a SKU
BeginForecast(t, body) ==
    /\ rf[t].pc = "idle"
    /\ ~body.empty
    /\ body.sku # Absent
    /\ \E create_ok \in CreateChoices(supabase_client, env_creds) :
          LET got == IF body.sales_data # <<>>
                     THEN [client |-> supabase_client, created |-> created]
                     ELSE get_supabase_client(supabase_client, env_creds, create_ok, created)
          IN  \E query_ok \in QueryChoices(got.client) :
                  LET sales_data == fetch_sales_data_from_supabase(got.client, sale_items, query_ok)
                      known == ~Falsy(sales_data) /\ body.sku \in SeqToSet(sales_data.keys)
                      df == IF body.sales_data # <<>> THEN CustomFrame(body.sales_data)
                            ELSE sales_data.df[body.sku]
                  IN  /\ supabase_client' = got.client
                      /\ created' = got.created
                      /\ IF body.sales_data = <<>> /\ ~known
                         THEN rf' = [rf EXCEPT ![t] = Resting]
                         ELSE \E predicted \in LibOutputs(ParseDates(df), Periods(body), body.frequency) :
                                  LET forecast_data == generate_forecast_for_sku(df, Periods(body),
                                                                                 body.frequency, predicted)
                                  IN  rf' = [rf EXCEPT ![t] =
                                                IF Truthy(forecast_data)
                                                THEN [pc |-> "save", sku |-> body.sku, data |-> forecast_data.data]
                                                ELSE Resting]
    /\ UNCHANGED <<forecast_cache, now>>
    /\ ConcFrame

\* its cache write and response (lines 331-341)
SaveForecast(t) ==
    /\ rf[t].pc = "save"
    /\ now < MaxWrites
    /\ \E create_ok \in CreateChoices(supabase_client, env_creds) :
          LET got == get_supabase_client(supabase_client, env_creds, create_ok, created)
          IN  \E query_ok \in QueryChoices(got.client) :
                  /\ supabase_client' = got.client
                  /\ created' = got.created
                  /\ forecast_cache' = save_forecast_to_cache(forecast_cache, got.client, rf[t].sku,
                                                              rf[t].data, now, query_ok)
                  /\ now' = now + 1
    /\ rf' = [rf EXCEPT ![t] = Resting]
    /\ ConcFrame

NextConc ==
    \E t \in Threads :
        \/ \E body \in ConcRefreshBodies : BeginRefresh(t, body)
        \/ RefreshPass(t)
        \/ EndRefresh(t)
        \/ \E body \in ConcForecastBodies : BeginForecast(t, body)
        \/ SaveForecast(t)

SpecConc == InitConc /\ [][NextConc]_vars

RecordsOf(table, sku) == {table[i] : i \in {j \in 1..Len(table) : table[j].sku = sku}}

CountOf(table, sku) == Cardinality({i \in 1..Len(table) : table[i].sku = sku})

\* C7: whatever the interleaving of forecast and refresh calls, every step leaves at most
\* one cached record per SKU; a write replaces the record of its SKU, stamped with the time
\* of the write, and changes the record of no other SKU
C7_OneRecordPerSku ==
    [][/\ \A sku \in Skus : CountOf(forecast_cache', sku) <= 1
       /\ \A sku \in Skus : CountOf(forecast_cache, sku) = 1 => CountOf(forecast_cache', sku) = 1
       /\ Cardinality({sku \in Skus : RecordsOf(forecast_cache', sku) # RecordsOf(forecast_cache, sku)}) <= 1
       /\ \A sku \in Skus :
             RecordsOf(forecast_cache', sku) # RecordsOf(forecast_cache, sku) =>
                 \A r \in RecordsOf(forecast_cache', sku) : r.generated_at = now /\ now' = now + 1]_vars

\* the record written first was overwritten after a second SKU's record was added, while
\* another request was still in flight
C7_Witness ==
    /\ Len(forecast_cache) = 2
    /\ forecast_cache[1].generated_at > forecast_cache[2].generated_at
    /\ \E t \in Threads : rf[t].pc # "idle"

---------------------------------------------------------------------------
\* get_supabase_client called by concurrent request threads, one line per step

\* pc: the line a thread is at; made: the client its create_client call returned;
\* result: what its last call returned
AtRest == [pc |-> "idle", made |-> NoClient, result |-> NoClient, calls |-> 0]

InitClient ==
    /\ supabase_client = NoClient
    /\ env_creds \in BOOLEAN
    /\ sale_items = <<>>
    /\ forecast_cache = <<>>
    /\ now = 0
    /\ rf = <<>>
    /\ req = [endpoint |-> "none"]
    /\ resp = Response("none", 0, FALSE)
    /\ audit = NoAudit
    /\ fetched = NoSeries
    /\ cl = [t \in Threads |-> AtRest]
    /\ created = 0
    /\ samples = <<>>

ClientFrame == UNCHANGED <<env_creds, sale_items, forecast_cache, now, rf, req, resp, audit, fetched, samples>>

\* a request handler calls get_supabase_client()
ClientCall(t) ==
    /\ cl[t].pc = "idle"
    /\ cl[t].calls < MaxCalls
    /\ cl' = [cl EXCEPT ![t].pc = "check", ![t].calls = @ + 1]
    /\ UNCHANGED <<supabase_client, created>>
    /\ ClientFrame

\* line 30: if _supabase_client is None
ClientCheck(t) ==
    /\ cl[t].pc = "check"
    /\ cl' = [cl EXCEPT ![t].pc = IF supabase_client = NoClient THEN "env" ELSE "return"]
    /\ UNCHANGED <<supabase_client, created>>
    /\ ClientFrame

\* lines 31-34 and 42-43: read the credentials
ClientEnv(t) ==
    /\ cl[t].pc = "env"
    /\ cl' = [cl EXCEPT ![t].pc = IF env_creds THEN "create" ELSE "return"]
    /\ UNCHANGED <<supabase_client, created>>
    /\ ClientFrame

\* line 37, right-hand side: create_client(...) returns a new client or raises
ClientCreate(t) ==
    /\ cl[t].pc = "create"
    /\ \/ /\ created < MaxCreated
          /\ created' = created + 1
          /\ cl' = [cl EXCEPT ![t].pc = "assign", ![t].made = created + 1]
       \/ /\ created' = created
          /\ cl' = [cl EXCEPT ![t].pc = "except"]
    /\ UNCHANGED supabase_client
    /\ ClientFrame

\* line 37, the assignment to the global
ClientAssign(t) ==
    /\ cl[t].pc = "assign"
    /\ supabase_client' = cl[t].made
    /\ cl' = [cl EXCEPT ![t].pc = "return"]
    /\ UNCHANGED created
    /\ ClientFrame

\* lines 39-41: _supabase_client = None
ClientExcept(t) ==
    /\ cl[t].pc = "except"
    /\ supabase_client' = NoClient
    /\ cl' = [cl EXCEPT ![t].pc = "return"]
    /\ UNCHANGED created
    /\ ClientFrame

\* line 45: return _supabase_client
ClientReturn(t) ==
    /\ cl[t].pc = "return"
    /\ cl' = [cl EXCEPT ![t].pc = "idle", ![t].result = supabase_client]
    /\ UNCHANGED <<supabase_client, created>>
    /\ ClientFrame

NextClient ==
    \E t \in Threads :
        \/ ClientCall(t)
        \/ ClientCheck(t)
        \/ ClientEnv(t)
        \/ ClientCreate(t)
        \/ ClientAssign(t)
        \/ ClientExcept(t)
        \/ ClientReturn(t)

SpecClient == InitClient /\ [][NextClient]_vars

\* C9: over any interleaving of calls, the client is created at most once and, once a
\* client is stored, it stays the stored client
C9_ClientCreatedOnce ==
    /\ created <= 1
    /\ \A t \in Threads : cl[t].result \in {NoClient, 1}

---------------------------------------------------------------------------
\* sample_data.py: generate_sample_data and get_sample_data_for_sku
\* Amounts are exact fractions <<numerator, denominator>>.

MaxDays == 2        \* the days of the year, from 1 January 2024, a series is followed for

YearDays == 366     \* len(pd.date_range(2024-01-01, 2024-12-31))

\* base_rates, in tenths of a unit per day
BaseRates == [s \in {"SKU-001234", "SKU-001239"} |-> IF s = "SKU-001234" THEN 35 ELSE 4]

Q4Skus == {"SKU-001234"}

SampleRequests == {"SKU-001234", "SKU-001239", "SKU-999999"}

\* what random.gauss(0, base_rate * 0.3) may return, in standard deviations
Draws == {-4, 0, 2}

MonthLengths == <<31, 29, 31, 30, 31, 30, 31, 31, 30, 31, 30, 31>>

\* the date i days after 1 January 2024, a Monday
RECURSIVE MonthDay(_, _)
MonthDay(i, month) ==
    IF i < MonthLengths[month] THEN [month |-> month, day |-> i + 1]
    ELSE MonthDay(i - MonthLengths[month], month + 1)

DateAt(i) == [month |-> MonthDay(i, 1).month, day |-> MonthDay(i, 1).day, weekday |-> i % 7]

Times(a, num, den) == <<a[1] * num, a[2] * den>>

\* round(x) of a non-negative fraction: to the nearest integer, halves to even
RoundFraction(a) ==
    LET q == a[1] \div a[2]
        r == a[1] % a[2]
    IN  IF 2 * r < a[2] THEN q
        ELSE IF 2 * r > a[2] THEN q + 1
        ELSE IF q % 2 = 0 THEN q ELSE q + 1

\* lines 53-76: the sales of `sku` on day i, `draw` the value of random.gauss
DailySales(sku, i, draw) ==
    LET date == DateAt(i)
        base == BaseRates[sku]
        noisy == <<Max(0, base * (10 + 3 * draw)), 100>>
        weekly == IF date.weekday >= 5 THEN Times(noisy, 13, 10) ELSE noisy
        monthly == IF date.day <= 3 \/ date.day >= 28 THEN Times(weekly, 115, 100) ELSE weekly
        yearly == IF date.month \in {10, 11, 12} /\ sku \in Q4Skus THEN Times(monthly, 14, 10) ELSE monthly
        friday == IF date.month = 11 /\ 22 <= date.day /\ date.day <= 30 THEN Times(yearly, 2, 1) ELSE yearly
        trended == Times(friday, 10 * YearDays + i, 10 * YearDays)
    IN  RoundFraction(trended)

\* generate_sample_data()[sku]: its first MaxDays rows, draws[i] the draw made for day i
generate_sample_data(sku, draws) ==
    [i \in 1..MaxDays |-> [ds |-> i - 1, y |-> DailySales(sku, i - 1, draws[i])]]

\* get_sample_data_for_sku: all_data.get(sku, pd.DataFrame())
get_sample_data_for_sku(sku, draws) ==
    IF sku \in DOMAIN BaseRates THEN generate_sample_data(sku, draws) ELSE <<>>

InitSample ==
    /\ supabase_client = NoClient
    /\ env_creds = FALSE
    /\ sale_items = <<>>
    /\ forecast_cache = <<>>
    /\ now = 0
    /\ rf = <<>>
    /\ req = [endpoint |-> "none"]
    /\ resp = Response("none", 0, FALSE)
    /\ audit = NoAudit
    /\ fetched = NoSeries
    /\ cl = <<>>
    /\ created = 0
    /\ samples = <<>>

\* one call of get_sample_data_for_sku, the generator drawing afresh
SampleCall(sku) ==
    /\ Len(samples) < MaxCalls
    /\ \E draws \in [1..MaxDays -> Draws] :
          samples' = Append(samples, [sku |-> sku, series |-> get_sample_data_for_sku(sku, draws)])
    /\ UNCHANGED <<supabase_client, env_creds, sale_items, forecast_cache, now, rf, req, resp, audit,
                   fetched, cl, created>>

NextSample == \E sku \in SampleRequests : SampleCall(sku)

SpecSample == InitSample /\ [][NextSample]_vars

\* C10: two calls of get_sample_data_for_sku for the same SKU in one process return the
\* same series
C10_SampleDataMemoized ==
    \A i, j \in 1..Len(samples) :
        samples[i].sku = samples[j].sku => samples[i].series = samples[j].series

---------------------------------------------------------------------------
\* Claims about what a refresh leaves in its response and in the cache

\* the SKUs a refresh request processes: its list, or every SKU with a series
Processed(body) == IF body.skus # <<>> THEN SeqToSet(body.skus) ELSE SeqToSet(Observed.keys)

C11_WitnessKept ==
    /\ req.endpoint = "refresh"
    /\ resp.success
    /\ \E sku \in DOMAIN resp.errors : CountOf(forecast_cache, sku) = 1

\* the predictions of `record` are a forecast that generate_forecast_for_sku can return
\* for the series sale_items holds for the record's SKU
FromOwnSales(record) ==
    /\ HasSeries(record.sku)
    /\ \E periods \in 0..MaxPeriods, frequency \in Frequencies :
          \E predicted \in LibOutputs(Observed.df[record.sku], periods, frequency) :
              generate_forecast_for_sku(Observed.df[record.sku], periods, frequency, predicted).data
                  = record.predictions

\* C12: after any sequence of forecast and refresh calls, every cached record holds a
\* forecast computed from the sales rows of its own SKU, never one computed from the
\* sales_data of a request body
C12_CacheHoldsOwnForecast ==
    \A i \in 1..Len(forecast_cache) : FromOwnSales(forecast_cache[i])

---------------------------------------------------------------------------
\* generate_forecast_for_sku on one future row of any values the library may return

MaxAmount == 16     \* the largest magnitude of a predicted value, in thousandths

Amounts == (0 - MaxAmount)..MaxAmount

InitPoint ==
    /\ supabase_client = NoClient
    /\ env_creds = FALSE
    /\ sale_items = SeededTable
    /\ forecast_cache = <<>>
    /\ now = 0
    /\ rf = <<>>
    /\ req = [endpoint |-> "none"]
    /\ resp = Response("none", 0, FALSE)
    /\ audit = NoAudit
    /\ fetched = NoSeries
    /\ cl = <<>>
    /\ created = 0
    /\ samples = <<>>

\* generate_forecast_for_sku(df, 1, 'D') on the series of SKU A, model.predict returning
\* <<yhat, yhat_lower, yhat_upper>> for the one future date
FormatPoint ==
    /\ Idle
    /\ \E yhat \in Amounts, yhat_lower \in Amounts, yhat_upper \in Amounts :
          LET df == Observed.df["A"]
              dates == FutureDates(df, 1, "D")
              h == CHOOSE v \in FittedRows : TRUE
              predicted == [i \in 1..Len(dates) |->
                              IF i < Len(dates)
                              THEN [ds |-> dates[i], yhat |-> h[1], yhat_lower |-> h[2], yhat_upper |-> h[3]]
                              ELSE [ds |-> dates[i], yhat |-> yhat, yhat_lower |-> yhat_lower,
                                    yhat_upper |-> yhat_upper]]
              forecast_data == generate_forecast_for_sku(df, 1, "D", predicted)
          IN  /\ req' = [endpoint |-> "generate",
                         row |-> [yhat |-> yhat, yhat_lower |-> yhat_lower, yhat_upper |-> yhat_upper]]
              /\ resp' = [Response("generate", 0, ~forecast_data.isNone) EXCEPT !.forecast = forecast_data.data]
              /\ UNCHANGED <<supabase_client, env_creds, sale_items, forecast_cache, now, rf, audit, fetched,
                             cl, created, samples>>

SpecPoint == InitPoint /\ [][FormatPoint]_vars

\* C13: the point emitted for a library row keeps the interval order after clamping at
\* zero and rounding: a row with yhat_lower <= yhat <= yhat_upper is emitted with
\* 0 <= yhat_lower <= yhat <= yhat_upper, and a row of three negative values is emitted
\* as (0, 0, 0), not dropped
C13_ClampKeepsIntervalOrder ==
    req.endpoint = "generate" =>
        /\ Len(resp.forecast) = 1
        /\ (req.row.yhat_lower <= req.row.yhat /\ req.row.yhat <= req.row.yhat_upper) =>
              /\ 0 <= resp.forecast[1].yhat_lower
              /\ resp.forecast[1].yhat_lower <= resp.forecast[1].yhat
              /\ resp.forecast[1].yhat <= resp.forecast[1].yhat_upper
        /\ (req.row.yhat < 0 /\ req.row.yhat_lower < 0 /\ req.row.yhat_upper < 0) =>
              /\ resp.forecast[1].yhat = 0
              /\ resp.forecast[1].yhat_lower = 0
              /\ resp.forecast[1].yhat_upper = 0

\* an ordered row of three negative values was emitted as a point of three zeros
C13_Witness ==
    /\ req.endpoint = "generate"
    /\ req.row.yhat_lower < req.row.yhat
    /\ req.row.yhat < req.row.yhat_upper
    /\ req.row.yhat_upper < 0
    /\ Len(resp.forecast) = 1
    /\ resp.forecast[1].yhat_upper = 0

\* an ordered row straddling zero, its values on rounding ties, was emitted
C13_WitnessTies ==
    /\ req.endpoint = "generate"
    /\ req.row.yhat_lower < 0
    /\ req.row.yhat = 5
    /\ req.row.yhat_upper = 15
    /\ resp.forecast[1].yhat = 0
    /\ resp.forecast[1].yhat_upper = 20

====
